---- MODULE Spec2Model ----
(***************************************************************************)
(* State-machine model of SurrealDBStore (src/src/main.ts), the            *)
(* express-session store backed by a single SurrealDB handle.              *)
(*                                                                         *)
(* The store's fields are variables; every method and every promise        *)
(* continuation of the class is an action.  The database handle `db` is    *)
(* modelled by the configured table's content (`table`), the liveness of   *)
(* its transport (`dbLive`) and the requests in flight on it.              *)
(***************************************************************************)
EXTENDS Integers, Sequences, FiniteSets, TLC

\* ------------------------------------------------------------------ bounds
\* Number of data requests that may be in flight on the handle at once.
MaxInflight == 2

\* Wall-clock instants (seconds) the model distinguishes.
TimePoints == {0, 6}

\* Session ids, listed in the order a table scan returns their records.
IdOrder == <<"a", "b">>
Ids == {IdOrder[i] : i \in 1..Len(IdOrder)}

\* Session payloads: `user` is an optional field, `expires` a timestamp.
NoField == "none"
Payloads == { [user |-> "u1", expires |-> 2],
              [user |-> NoField, expires |-> 8] }

\* Values a custom getter / setter may resolve with.
HookValues == {"h1", "h2"}

\* Cool-down between reconnect attempts, in seconds (spec section 4.1).
ThrottleWindow == 5

\* ------------------------------------------------------------------ values
\* JavaScript values are tagged records; the tag `k` is compared first.
Null      == [k |-> "null",  v |-> 0]
Undefined == [k |-> "undef", v |-> 0]
Rec(p)    == [k |-> "rec",   v |-> p]
Count(n)  == [k |-> "count", v |-> n]
Hook(h)   == [k |-> "hook",  v |-> h]
Err(e)    == [k |-> "err",   v |-> e]
Str(s)    == [k |-> "str",   v |-> s]
List(s)   == [k |-> "list",  v |-> s]

IsErr(x) == x.k = "err"

\* a ?? b
Nullish(a, b) == IF a.k \in {"null", "undef"} THEN b ELSE a

\* Reading a property of x throws a TypeError: x is null or undefined.
NoProperties(x) == x.k \in {"null", "undef"}

\* Reasons a custom getter / setter may reject with: an Error, or nothing
\* (Promise.reject()).
HookReasons == { Err("hook"), Undefined }

\* Table names are sequences of characters.
AlnumChars == {"a", "b", "e", "i", "n", "o", "r", "s", "u", "0", "1"}
IsAlphanumeric(s) == \A i \in 1..Len(s) : s[i] \in AlnumChars

TableNameOptions ==
    { Undefined,
      Str(<<"s", "e", "s", "s", "i", "o", "n">>),
      Str(<<"a", ";", "b">>) }

\* SurrealDBStoreOptions, restricted to the options that steer control flow;
\* `logger` tells whether options.logger.error is a function.
\* The table name steers no handler once the store is constructed, and the
\* sweeper shares no code with the custom strategies: the unset and the
\* unsafe name, and the sweeper, are explored with the default strategies
\* and no logger.
Options ==
    { o \in [ tableName        : TableNameOptions,
              autoSweepExpired : BOOLEAN,
              customGetter     : BOOLEAN,
              customSetter     : BOOLEAN,
              logger           : BOOLEAN ] :
        IF o.tableName = Str(<<"s", "e", "s", "s", "i", "o", "n">>)
        THEN \/ ~o.autoSweepExpired
             \/ ~o.customGetter /\ ~o.customSetter /\ ~o.logger
        ELSE ~o.autoSweepExpired /\ ~o.customGetter /\ ~o.customSetter /\ ~o.logger }

VARIABLES
    options,                \* constructor argument (readonly)
    ctor,                   \* "none" | "ok" | "threw": result of `new SurrealDBStore(options)`
    tableName,              \* this.tableName
    lastConnectionAttempt,  \* this.lastConnectionAttempt
    hasConnected,           \* this.hasConnected
    isConnected,            \* this.isConnected
    connectCalls,           \* number of db.connect() calls made so far
    connecting,             \* the promise of db.connect() is pending
    dbLive,                 \* the transport of db is connected
    schema,                 \* "none" | "pending" | "ok" | "failed": DEFINE TABLE query
    sweepTimer,             \* the setInterval of the constructor is registered
    sweepReq,               \* "none" | "pending": sweep query in flight
    sweepFailed,            \* a sweep query was rejected (and the logger told so)
    now,                    \* wall clock
    table,                  \* content of the configured table: id -> Rec(p) | Undefined
    otherTable,             \* content of another table of the same database
    pending,                \* data requests in flight
    done,                   \* the data call that returned or called back last
    last                    \* history: the last operation applied to each id

vars == << options, ctor, tableName, lastConnectionAttempt, hasConnected,
           isConnected, connectCalls, connecting, dbLive, schema, sweepTimer,
           sweepReq, sweepFailed, now, table, otherTable, pending, done, last >>

connVars == << lastConnectionAttempt, hasConnected, isConnected,
               connectCalls, connecting, dbLive >>

\* History entry: the operation applied last to a record ("set", "destroy",
\* "clear", "sweep", or "other": none yet or a custom setter), and what it
\* wrote.
Applied(op, data) == [op |-> op, data |-> data]

NoCall == [op |-> "none", id |-> "", data |-> Undefined, hook |-> FALSE,
           outcome |-> "none", val |-> Undefined, cbThrows |-> FALSE,
           cbs |-> <<>>, pre |-> [i \in Ids |-> Applied("other", Undefined)]]

\* No handler of the store is running: the event loop is between two turns.
Idle == done = NoCall

Init ==
    /\ options \in Options
    /\ ctor = "none"
    /\ tableName = Undefined
    /\ lastConnectionAttempt = 0
    /\ hasConnected = FALSE
    /\ isConnected = FALSE
    /\ connectCalls = 0
    /\ connecting = FALSE
    /\ dbLive = FALSE
    /\ schema = "none"
    /\ sweepTimer = FALSE
    /\ sweepReq = "none"
    /\ sweepFailed = FALSE
    /\ now = 0
    /\ table \in [Ids -> {Undefined}]
    /\ otherTable = [i \in Ids |-> IF i = IdOrder[1]
                                   THEN Rec([user |-> "u1", expires |-> 2])
                                   ELSE Undefined]
    /\ pending = {}
    /\ done = NoCall
    /\ last = [i \in Ids |-> Applied("other", Undefined)]


\* --------------------------------------------------------- connection
\* _connect(), up to its `await`: builds connectionOpts and calls db.connect.
_connect ==
    /\ connectCalls' = connectCalls + 1
    /\ connecting' = TRUE
    /\ UNCHANGED << lastConnectionAttempt, hasConnected, isConnected, dbLive >>

\* new SurrealDBStore(options)
constructor ==
    /\ Idle
    /\ ctor = "none"
    /\ ctor' = "ok"
    /\ tableName' = Nullish(options.tableName,
                            Str(<<"u", "s", "e", "r", "_", "s", "e", "s", "s", "i", "o", "n">>))
    /\ _connect
    /\ sweepTimer' = options.autoSweepExpired
    /\ UNCHANGED << options, schema, sweepReq, sweepFailed, now, table, otherTable, pending, done, last >>

\* The promise of db.connect settles: the rest of _connect, then the
\* constructor's .then, which issues the DEFINE TABLE query.
_connect_settled ==
    /\ Idle
    /\ connecting
    /\ \E ok \in BOOLEAN : dbLive' = ok
    /\ schema' = "pending"
    /\ connecting' = FALSE
    /\ isConnected' = TRUE
    /\ hasConnected' = TRUE
    /\ UNCHANGED << options, ctor, tableName, lastConnectionAttempt, connectCalls,
                    sweepTimer, sweepReq, sweepFailed, now, table, otherTable, pending, done, last >>

\* The DEFINE TABLE query settles; either way only the logger is told.
schema_settled ==
    /\ Idle
    /\ schema = "pending"
    /\ schema' = IF dbLive THEN "ok" ELSE "failed"
    /\ UNCHANGED << options, ctor, tableName, connVars, sweepTimer, sweepReq, sweepFailed,
                    now, table, otherTable, pending, done, last >>

\* disconnected as a bug would have it: a handler of the disconnect event
\* resets both connection flags.
disconnected_resets ==
    /\ Idle
    /\ dbLive
    /\ dbLive' = FALSE
    /\ hasConnected' = FALSE
    /\ isConnected' = FALSE
    /\ UNCHANGED << options, ctor, tableName, lastConnectionAttempt,
                    connectCalls, connecting, schema, sweepTimer,
                    sweepReq, sweepFailed, now, table, otherTable, pending, done, last >>

\* The transport of db loses its connection.  The store subscribes to no
\* event of the handle, so none of its fields changes; the requests in
\* flight will be rejected.
disconnected ==
    /\ Idle
    /\ dbLive
    /\ dbLive' = FALSE
    /\ UNCHANGED << options, ctor, tableName, lastConnectionAttempt, hasConnected,
                    isConnected, connectCalls, connecting, schema, sweepTimer,
                    sweepReq, sweepFailed, now, table, otherTable, pending, done, last >>

\* Time passes.
tick ==
    /\ Idle
    /\ \E t \in TimePoints :
        /\ t > now
        /\ \A u \in TimePoints : u > now => t <= u
        /\ now' = t
    /\ UNCHANGED << options, ctor, tableName, connVars, schema, sweepTimer,
                    sweepReq, sweepFailed, table, otherTable, pending, done, last >>


\* ------------------------------------------------------ the database
\* new RecordId(this.tableName, sessionId): the key of a session's record
\* inside the configured table.
RecordId(sessionId) == sessionId

\* db.select(recordId)
SelectRecord(t, rid) == t[rid]

\* Upsert as a bug would have it: the new content is merged into the stored
\* record (MERGE instead of CONTENT), so a field the new payload lacks survives.
Upsert_merge(t, rid, session) ==
    [t EXCEPT ![rid] =
        IF t[rid] = Undefined THEN Rec(session)
        ELSE Rec([user    |-> IF session.user = NoField THEN t[rid].v.user
                              ELSE session.user,
                  expires |-> session.expires])]

\* db.upsert(recordId).content(session): create or replace.
Upsert(t, rid, session) == [t EXCEPT ![rid] = Rec(session)]

\* DeleteRecord as a bug would have it: the record is addressed by a key
\* that matches nothing, and stays.
DeleteRecord_miss(t, rid) == t

\* db.delete(recordId)
DeleteRecord(t, rid) == [t EXCEPT ![rid] = Undefined]

\* db.select(new Table(this.tableName)): every record, in id order.
RECURSIVE Scan(_, _)
Scan(t, i) ==
    IF i > Len(IdOrder) THEN <<>>
    ELSE (IF t[IdOrder[i]] = Undefined THEN <<>> ELSE <<t[IdOrder[i]]>>)
         \o Scan(t, i + 1)
SelectTable(t) == Scan(t, 1)

\* SELECT count() FROM type::table($table) GROUP ALL: the rows of the one
\* statement.  Over an empty table the server answers with one row counting
\* zero or with no row at all, depending on its version.
CountRows(t) ==
    IF SelectTable(t) = <<>>
    THEN { <<>>, <<Len(SelectTable(t))>> }
    ELSE { <<Len(SelectTable(t))>> }

\* DELETE type::table($table)
DeleteTable(t) == [i \in Ids |-> Undefined]

\* DeleteExpired as a bug would have it: the WHERE clause is missing.
DeleteExpired_noWhere(t, time) == [i \in Ids |-> Undefined]

\* DELETE ... WHERE expires < time::now(), over the records of one table.
DeleteExpired(t, time) ==
    [i \in Ids |-> IF t[i] # Undefined /\ t[i].v.expires < time
                   THEN Undefined ELSE t[i]]

\* DELETE type::table($table) WHERE expires < time::now(), with $table
\* bound to tbl: the statement reaches the records of that table only.
SweepQuery(db, tbl, time) ==
    [n \in DOMAIN db |-> IF n = tbl THEN DeleteExpired(db[n], time) ELSE db[n]]

\* ------------------------------------------------------ data requests
Request(op, id, data, hook) ==
    [op |-> op, id |-> id, data |-> data, hook |-> hook]

\* A request is put on the handle.
Issue(r) ==
    /\ Cardinality(pending) < MaxInflight
    /\ r \notin pending
    /\ pending' = pending \cup {r}
    /\ UNCHANGED done

\* The call throws to its caller before any promise exists.
Raise(op, id, data) ==
    /\ done' = [op |-> op, id |-> id, data |-> data, hook |-> TRUE,
                outcome |-> "threw", val |-> Err("thrown by hook"),
                cbThrows |-> FALSE, cbs |-> <<>>, pre |-> last]
    /\ UNCHANGED pending

\* A custom getter / setter is called synchronously: it throws, or it
\* returns a promise.
CallHook(op, id, data) ==
    \E throws \in BOOLEAN :
        IF throws THEN Raise(op, id, data)
        ELSE Issue(Request(op, id, data, TRUE))

GetImpl(sessionId) ==
    /\ Idle
    /\ ctor = "ok"
    /\ IF options.customGetter
       THEN CallHook("get", sessionId, Undefined)
       ELSE Issue(Request("get", RecordId(sessionId), Undefined, FALSE))
    /\ UNCHANGED << options, ctor, tableName, connVars, schema, sweepTimer,
                    sweepReq, sweepFailed, now, table, otherTable, last >>

SetImpl(sessionId, session) ==
    /\ Idle
    /\ ctor = "ok"
    /\ IF options.customSetter
       THEN CallHook("set", sessionId, Rec(session))
       ELSE Issue(Request("set", RecordId(sessionId), Rec(session), FALSE))
    /\ UNCHANGED << options, ctor, tableName, connVars, schema, sweepTimer,
                    sweepReq, sweepFailed, now, table, otherTable, last >>

TableOp(op, id) ==
    /\ Idle
    /\ ctor = "ok"
    /\ Issue(Request(op, id, Undefined, FALSE))
    /\ UNCHANGED << options, ctor, tableName, connVars, schema, sweepTimer,
                    sweepReq, sweepFailed, now, table, otherTable, last >>

get == \E sessionId \in Ids : GetImpl(sessionId)

set == \E sessionId \in Ids, session \in Payloads : SetImpl(sessionId, session)

\* touch(sid, session, cb) is this.set(sid, session, cb).
touch == \E sid \in Ids, session \in Payloads : SetImpl(sid, session)

destroy == \E sessionId \in Ids : TableOp("destroy", RecordId(sessionId))

length == TableOp("length", "")

all == TableOp("all", "")

clear == TableOp("clear", "")


\* ------------------------------------------- promise chains of the calls
\* What a .then handler does with the value its promise resolved with:
\* the arguments it calls cb with, or a throw before cb is reached.
Calls(args) == [threw |-> FALSE, args |-> args]
Throws == [threw |-> TRUE, args |-> <<>>]

\* GetThen as a bug would have it: the record is passed in the error slot,
\* as length and all do.
GetThen_errorSlot(res) == Calls(<<res>>)

\* get: (res) => cb(null, res)
GetThen(res) == Calls(<<Null, res>>)

\* set: (res) => cb(null, res)
SetThen(res) == Calls(<<Null, res>>)

\* destroy: () => cb(null)
DestroyThen(res) == Calls(<<Null>>)

\* length: ([result]) => cb(result[0].count); result[0] is undefined when
\* the statement returned no row, and reading .count of it throws.
LengthThen(result) ==
    IF result.v = <<>> THEN Throws ELSE Calls(<<Count(result.v[1])>>)

\* all: ([result]) => cb(result): the first element of the resolved array.
AllThen(res) ==
    Calls(<<IF res.v = <<>> THEN Undefined ELSE res.v[1]>>)

\* clear: () => cb(null)
ClearThen(res) == Calls(<<Null>>)

Then(op, res) ==
    CASE op = "get"     -> GetThen(res)
      [] op = "set"     -> SetThen(res)
      [] op = "destroy" -> DestroyThen(res)
      [] op = "length"  -> LengthThen(res)
      [] op = "all"     -> AllThen(res)
      [] op = "clear"   -> ClearThen(res)

\* The catch handler of a chain, err => { logger?.error?.(... + err.message
\* + ... + err.stack); cb(err) }: the argument of the logger call is built
\* only when the sink exists, and building it throws when err has no
\* properties, before cb is reached.
Catch(err, logger) ==
    IF logger /\ NoProperties(err) THEN <<>> ELSE << <<err>> >>

\* promise.then(onResolved).catch(...), for a promise that resolved: the
\* catch handler also receives whatever onResolved threw, be it thrown by
\* the handler itself or by cb.
Resolved(handler, cbThrows, logger) ==
    IF handler.threw THEN Catch(Err("TypeError"), logger)
    ELSE IF cbThrows THEN << handler.args >> \o Catch(Err("thrown by cb"), logger)
    ELSE << handler.args >>

\* Rejected as a bug would have it: the rejection is swallowed.
Rejected_swallow(err, logger) == <<>>

\* The same chain for a promise that rejected with err.
Rejected(err, logger) == Catch(err, logger)

\* What the database resolves a request with, given the table's content.
Answers(r, t) ==
    CASE r.op = "get"     -> { SelectRecord(t, r.id) }
      [] r.op = "set"     -> { SelectRecord(Upsert(t, r.id, r.data.v), r.id) }
      [] r.op = "destroy" -> { Undefined }
      [] r.op = "length"  -> { List(rows) : rows \in CountRows(t) }
      [] r.op = "all"     -> { List(SelectTable(t)) }
      [] r.op = "clear"   -> { Undefined }

\* Effect as a bug would have it: destroy deletes by table, not by record.
Effect_wide(r, t) ==
    CASE r.op = "set"     -> Upsert(t, r.id, r.data.v)
      [] r.op = "destroy" -> DeleteTable(t)
      [] r.op = "clear"   -> DeleteTable(t)
      [] OTHER            -> t

\* What serving a request does to the table.
Effect(r, t) ==
    CASE r.op = "set"     -> Upsert(t, r.id, r.data.v)
      [] r.op = "destroy" -> DeleteRecord(t, r.id)
      [] r.op = "clear"   -> DeleteTable(t)
      [] OTHER            -> t

\* History after a request was served.
Record(r, h) ==
    CASE r.op = "set"     -> [h EXCEPT ![r.id] = Applied("set", r.data)]
      [] r.op = "destroy" -> [h EXCEPT ![r.id] = Applied("destroy", Undefined)]
      [] r.op = "clear"   -> [i \in Ids |-> Applied("clear", Undefined)]
      [] OTHER            -> h

\* The cb invocations a call makes once its promise settled with val.
Delivered(op, outcome, val, cbThrows, logger) ==
    IF outcome = "resolved"
    THEN Resolved(Then(op, val), cbThrows, logger)
    ELSE Rejected(val, logger)

\* The call whose promise settled with val; cbThrows tells what cb does
\* when it is handed a success.
Returned(r, outcome, val, cbThrows) ==
    [op |-> r.op, id |-> r.id, data |-> r.data, hook |-> r.hook,
     outcome |-> outcome, val |-> val, cbThrows |-> cbThrows,
     cbs |-> Delivered(r.op, outcome, val, cbThrows, options.logger),
     pre |-> last]

\* The database settles a request of the default logic.  The handle holds
\* requests back until its connect has settled.
settle ==
    \E r \in pending :
        /\ Idle
        /\ ~connecting
        /\ ~r.hook
        /\ pending' = pending \ {r}
        /\ IF dbLive
           THEN /\ table' = Effect(r, table)
                /\ last' = Record(r, last)
                /\ \E res \in Answers(r, table), cbThrows \in BOOLEAN :
                     done' = Returned(r, "resolved", res, cbThrows)
           ELSE /\ done' = Returned(r, "rejected", Err("db"), FALSE)
                /\ UNCHANGED << table, last >>
        /\ UNCHANGED << options, ctor, tableName, connVars, schema, sweepTimer,
                        sweepReq, sweepFailed, now, otherTable >>

\* The promise of a custom getter / setter settles.  What the hook did to
\* the database is its own business; the table is left as it is.
hook_settled ==
    \E r \in pending :
        /\ Idle
        /\ r.hook
        /\ pending' = pending \ {r}
        /\ \/ \E h \in HookValues, cbThrows \in BOOLEAN :
                done' = Returned(r, "resolved", Hook(h), cbThrows)
           \/ \E err \in HookReasons :
                done' = Returned(r, "rejected", err, FALSE)
        /\ last' = IF r.op = "set"
                   THEN [last EXCEPT ![r.id] = Applied("other", Undefined)]
                   ELSE last
        /\ UNCHANGED << options, ctor, tableName, connVars, schema, sweepTimer,
                        sweepReq, sweepFailed, now, table, otherTable >>

\* The turn of the event loop that delivered a callback, or in which a call
\* threw, ends.
turn_ends ==
    /\ ~Idle
    /\ done' = NoCall
    /\ UNCHANGED << options, ctor, tableName, connVars, schema, sweepTimer,
                    sweepReq, sweepFailed, now, table, otherTable, pending, last >>

\* ------------------------------------------------------------ sweeper
\* The interval callback of the constructor: one DELETE ... WHERE query.
sweep ==
    /\ Idle
    /\ sweepTimer
    /\ sweepReq = "none"
    /\ sweepReq' = "pending"
    /\ UNCHANGED << options, ctor, tableName, connVars, schema, sweepTimer,
                    sweepFailed, now, table, otherTable, pending, done, last >>

\* sweep_settled as a bug would have it: a failed sweep clears the interval.
sweep_settled_cancels ==
    /\ Idle
    /\ ~connecting
    /\ sweepReq = "pending"
    /\ sweepReq' = "none"
    /\ sweepFailed' = (sweepFailed \/ ~dbLive)
    /\ sweepTimer' = dbLive
    /\ IF dbLive
       THEN LET db == SweepQuery([configured |-> table, other |-> otherTable],
                                 "configured", now)
            IN  /\ table' = db.configured
                /\ otherTable' = db.other
                /\ last' = [i \in Ids |->
                              IF db.configured[i] # table[i]
                              THEN Applied("sweep", Undefined) ELSE last[i]]
       ELSE UNCHANGED << table, otherTable, last >>
    /\ UNCHANGED << options, ctor, tableName, connVars, schema,
                    now, pending, done >>

\* The sweep query settles; either way only the logger is told.
sweep_settled ==
    /\ Idle
    /\ ~connecting
    /\ sweepReq = "pending"
    /\ sweepReq' = "none"
    /\ sweepFailed' = (sweepFailed \/ ~dbLive)
    /\ IF dbLive
       THEN LET db == SweepQuery([configured |-> table, other |-> otherTable],
                                 "configured", now)
            IN  /\ table' = db.configured
                /\ otherTable' = db.other
                /\ last' = [i \in Ids |->
                              IF db.configured[i] # table[i]
                              THEN Applied("sweep", Undefined) ELSE last[i]]
       ELSE UNCHANGED << table, otherTable, last >>
    /\ UNCHANGED << options, ctor, tableName, connVars, schema, sweepTimer,
                    now, pending, done >>

\* ------------------------------------------------------ specification
Next ==
    \/ constructor
    \/ _connect_settled
    \/ schema_settled
    \/ disconnected
    \/ tick
    \/ get
    \/ set
    \/ touch
    \/ destroy
    \/ length
    \/ all
    \/ clear
    \/ settle
    \/ hook_settled
    \/ sweep
    \/ sweep_settled
    \/ turn_ends

Spec == Init /\ [][Next]_vars

\* The store with the sweeper on, under the scheduling of the event loop:
\* a turn that started ends, and the interval timer, once registered, gets
\* its turn again and again whatever other handlers run in between.
SweepInit == Init /\ options.autoSweepExpired

SweepNext ==
    \/ constructor
    \/ _connect_settled
    \/ schema_settled
    \/ disconnected
    \/ tick
    \/ set
    \/ destroy
    \/ settle
    \/ sweep
    \/ sweep_settled
    \/ turn_ends

SweepSpec ==
    /\ SweepInit
    /\ [][SweepNext]_vars
    /\ WF_vars(turn_ends)
    /\ SF_vars(sweep)


\* ================================================================ claims
\* The call whose callback is being delivered came from a database request
\* of the default logic that resolved.
Served(op) == done.op = op /\ ~done.hook /\ done.outcome = "resolved"

\* C1: for every data operation and every outcome of its request, resolved
\* or rejected, the callback is invoked exactly once, with an error in the
\* error slot and nothing else when the request was rejected, and with a
\* null error slot when it resolved: an error or a success, never both.
C1_CallbackExactlyOnce ==
    done.outcome \in {"resolved", "rejected"} =>
        /\ Len(done.cbs) = 1
        /\ done.outcome = "rejected" =>
              Len(done.cbs[1]) = 1 /\ IsErr(done.cbs[1][1])
        /\ done.outcome = "resolved" => done.cbs[1][1] = Null

\* C2: no data operation raises an exception to its caller.
C2_NeverThrows == done.outcome # "threw"

\* C3: a store whose table name has a non-alphanumeric character is not
\* constructed (construction throws), and no connect call is made for it.
C3_UnsafeTableNameRejected ==
    (options.tableName.k = "str" /\ ~IsAlphanumeric(options.tableName.v)) =>
        ctor \in {"none", "threw"} /\ connectCalls = 0

\* C4: a disconnect notification arriving less than the throttle window
\* after the last reconnect attempt makes no connect call; one arriving
\* later makes exactly one and records its time in lastConnectionAttempt.
C4_ReconnectThrottled ==
    [][ (dbLive /\ ~dbLive') =>
            IF now - lastConnectionAttempt >= ThrottleWindow
            THEN connectCalls' = connectCalls + 1 /\ lastConnectionAttempt' = now
            ELSE connectCalls' = connectCalls ]_vars

\* C5: a data request is put on the handle only when the store is connected,
\* or in the same call as the connect that the readiness gate runs, or after
\* the gate skipped a reconnect inside the throttle window.
C5_ReadinessGate ==
    [][ (\E r \in pending' : r \notin pending) =>
            \/ isConnected
            \/ connectCalls' > connectCalls
            \/ hasConnected /\ now - lastConnectionAttempt < ThrottleWindow ]_vars

\* C6: isConnected is true only while the transport is live: the last
\* connect attempt succeeded and no disconnect happened since.
C6_IsConnectedMeansLive == isConnected => dbLive

\* C7: a get served after a successful set of the same id, nothing else
\* having been applied to that id in between, calls back with a null error
\* and the payload that was set.
C7_RoundTrip ==
    (Served("get") /\ done.pre[done.id].op = "set") =>
        done.cbs[1] = <<Null, done.pre[done.id].data>>

C7_Witness ==
    /\ Served("get")
    /\ done.pre[done.id].op = "set"
    /\ \E p \in Payloads : done.cbs = << <<Null, Rec(p)>> >>

\* C8: a successful set(id, data) leaves exactly data under id, whatever
\* was stored there, and changes no other record; served right after the
\* same set(id, data), it leaves the table as it was.
C8_SetIdempotent ==
    [][ \A r \in pending :
            (r \notin pending' /\ r.op = "set" /\ ~r.hook /\ done'.outcome = "resolved") =>
                /\ table' = [table EXCEPT ![r.id] = r.data]
                /\ last[r.id] = Applied("set", r.data) => table' = table ]_vars

C8_Witness ==
    /\ Served("set")
    /\ done.pre[done.id] = Applied("set", done.data)
    /\ table[done.id] = done.data

\* C9: a get served after a successful destroy of the same id, nothing else
\* having been applied to that id in between, calls back with a null error
\* and no record, not with an error.
C9_DestroyThenGet ==
    (Served("get") /\ done.pre[done.id].op = "destroy") =>
        done.cbs[1] = <<Null, Undefined>>

C9_Witness ==
    /\ Served("get")
    /\ done.pre[done.id].op = "destroy"
    /\ done.cbs = << <<Null, Undefined>> >>

\* C10: all() calls back with the sequence of every record of the table;
\* right after a successful clear() that sequence is empty.
C10_AllDeliversEveryRecord ==
    Served("all") =>
        /\ \E i \in 1..Len(done.cbs[1]) : done.cbs[1][i] = List(SelectTable(table))
        /\ (\A id \in Ids : done.pre[id].op = "clear") =>
              \E i \in 1..Len(done.cbs[1]) : done.cbs[1][i] = List(<<>>)


C12_CustomStrategyVerbatim ==
    /\ \A r \in pending :
          /\ r.op = "get" => r.hook = options.customGetter
          /\ r.op = "set" => r.hook = options.customSetter
    /\ (done.hook /\ done.outcome = "resolved") =>
          Len(done.cbs) >= 1 /\ done.cbs[1] = <<Null, done.val>>
    /\ (done.hook /\ done.outcome = "rejected") =>
          done.cbs = << <<done.val>> >>

\* C13: a store constructed without the tableName option addresses the
\* table user_sessions in every request.
C13_DefaultTableName ==
    (ctor = "ok" /\ options.tableName = Undefined) =>
        tableName = Str(<<"u", "s", "e", "r", "_", "s", "e", "s", "s", "i", "o", "n", "s">>)

\* C14: a store with a logger delivers, for every call and every outcome of
\* its promise, the callback invocations that the store without a logger
\* delivers for the same call and outcome.
C14_LoggerIndependence ==
    done.outcome \in {"resolved", "rejected"} =>
        done.cbs = Delivered(done.op, done.outcome, done.val, done.cbThrows, FALSE)

\* C15: the DEFINE TABLE statement is issued at most once, and only when
\* the construction-time connect has succeeded; its failure changes no
\* connection field and removes no data request.
C15_SchemaAfterSuccessfulConnect ==
    /\ [][ (schema' = "pending" /\ schema # "pending") =>
              schema = "none" /\ dbLive' ]_vars
    /\ [][ schema # "none" => schema' # "none" ]_vars
    /\ [][ (schema = "pending" /\ schema' = "failed") =>
              UNCHANGED << connVars, pending >> ]_vars

\* C16: a call of the default logic puts exactly one request on the handle;
\* when the database rejects it, the connection being down, the callback is
\* invoked once with the error and the step that delivers it puts no
\* request on the handle.
C16_NeverRetried ==
    /\ [][ pending' # pending =>
              \/ \E r \in pending : pending' = pending \ {r}
              \/ \E r \in pending' : r \notin pending /\ pending' = pending \cup {r} ]_vars
    /\ [][ \A r \in pending :
              (r \notin pending' /\ ~r.hook /\ ~dbLive) =>
                  /\ pending' = pending \ {r}
                  /\ IsErr(done'.val)
                  /\ done'.cbs = << <<done'.val>> >> ]_vars

C16_Witness ==
    /\ ~done.hook
    /\ done.outcome = "rejected"
    /\ hasConnected
    /\ done.cbs = << <<Err("db")>> >>

\* C17: a sweep that the database rejects changes nothing but the log: the
\* interval stays registered, the connection fields and the data requests
\* in flight are as before; and once a sweep has failed, however many have,
\* a further sweep request is eventually put on the handle.
C17_SweeperResilience ==
    /\ [][ (sweepReq = "pending" /\ sweepReq' = "none" /\ ~dbLive) =>
              /\ sweepTimer' /\ sweepFailed'
              /\ UNCHANGED << connVars, pending, table, otherTable >> ]_vars
    /\ sweepFailed ~> (sweepReq = "pending")

C17_Witness ==
    /\ sweepFailed
    /\ sweepReq = "pending"
    /\ ~dbLive
    /\ pending # {}

\* C18: hasConnected is false until a connect call has been made, and no
\* step sets it back to false.
C18_HasConnectedMonotonic ==
    /\ [](connectCalls = 0 => ~hasConnected)
    /\ [][ hasConnected => hasConnected' ]_vars

C18_Witness ==
    /\ hasConnected
    /\ schema = "ok"
    /\ ~dbLive
    /\ \E i \in Ids : last[i].op = "set"

\* C19: the callback of a call is invoked at most once, also when it throws
\* on the success it is handed.
C19_CallbackAtMostOnce == Len(done.cbs) <= 1

\* C20: serving a get, length or all of the default logic changes no record;
\* serving a set (touch) or destroy changes no record but the one under its
\* own id; none of them changes a record of another table, and putting a
\* request on the handle changes no record.
C20_Frame ==
    /\ [][ \A r \in pending :
              (r \notin pending' /\ ~r.hook) =>
                  /\ otherTable' = otherTable
                  /\ r.op \in {"get", "length", "all"} => table' = table
                  /\ r.op \in {"set", "destroy"} =>
                        \A i \in Ids \ {r.id} : table'[i] = table[i] ]_vars
    /\ [][ (\E r \in pending' : r \notin pending) =>
              table' = table /\ otherTable' = otherTable ]_vars

C20_Witness ==
    /\ done.op \in {"set", "destroy"}
    /\ Served(done.op)
    /\ \E j \in Ids \ {done.id} :
          /\ done.pre[j].op = "set"
          /\ table[j] = done.pre[j].data

====
